---- MODULE Spec2Model ----
(***************************************************************************)
(* Model of the webui request entry points of ChatTTS-Forge                *)
(* (modules/webui/webui_utils.py) and of the per-format stream encoders    *)
(* (modules/core/handler/encoder/encoders.py).                             *)
(*                                                                         *)
(* One request is served at a time.  `fn` is the entry point being run,    *)
(* `pc` its position, `args` the arguments of the call, `loc` the local    *)
(* variables of the running function, `handler` the synthesis handler      *)
(* constructed by the request, `enqueued` the handlers whose enqueue() was *)
(* called and `result` what the call returned or raised.                   *)
(***************************************************************************)
EXTENDS Integers, Sequences, FiniteSets, TLC

VARIABLES fn, pc, args, loc, handler, enqueued, result

vars == <<fn, pc, args, loc, handler, enqueued, result>>

(***************************************************************************)
(* Bounds of the model.                                                    *)
(***************************************************************************)
MaxSegs == 4
MaxTextLen == 2
MaxBudget == 3
MaxChars == 2
MaxTtsMax == 2

(***************************************************************************)
(* Python values.  An absent value (None, a missing dict key) is the empty *)
(* set and a present value v is {v}.  Strings that the code strips or      *)
(* slices are sequences of characters.                                     *)
(***************************************************************************)
None == {}

Some(v) == {v}

TheValue(opt) == CHOOSE v \in opt : TRUE

\* dict.get(key, default)
Get(opt, default) == IF opt = None THEN default ELSE TheValue(opt)

Chars == {" ", "a"}

Strings(n) == UNION {[1..k -> Chars] : k \in 0..n}

RECURSIVE LStrip(_)
LStrip(s) == IF s # <<>> /\ Head(s) = " " THEN LStrip(Tail(s)) ELSE s

RECURSIVE RStrip(_)
RStrip(s) ==
    IF s # <<>> /\ s[Len(s)] = " " THEN RStrip(SubSeq(s, 1, Len(s) - 1)) ELSE s

\* str.strip()
Strip(s) == RStrip(LStrip(s))

\* s[0:n]
Slice0(s, n) == SubSeq(s, 1, IF n < Len(s) THEN n ELSE Len(s))

NoResult == [kind |-> "none"]

Raise(msg) == [kind |-> "raise", error |-> msg]

NoHandler == [kind |-> "none"]

NoArgs == [none |-> TRUE]

(***************************************************************************)
(* Segments produced by the SSML parser: a Text segment is measured only   *)
(* by len(seg["text"]), a Break carries its duration.                      *)
(***************************************************************************)
SSMLSegment(n) == [type |-> "SSMLSegment", len |-> n]

SSMLBreak(d) == [type |-> "SSMLBreak", duration |-> d]

Segments == {SSMLSegment(n) : n \in 0..MaxTextLen} \cup {SSMLBreak(d) : d \in {1}}

SegmentLists == UNION {[1..k -> Segments] : k \in 0..MaxSegs}

\* An SSML string: optional surrounding whitespace around an optional
\* document; the document is identified with the segments the parser yields.
SsmlStrings == [pad : BOOLEAN, doc : {None} \cup {Some(s) : s \in SegmentLists}]

StripSsml(ssml) == [ssml EXCEPT !.pad = FALSE]

EmptySsml == [pad |-> FALSE, doc |-> None]

\* create_ssml_v01_parser().parse(ssml)
parse(ssml) == TheValue(ssml.doc)

isinstance_SSMLBreak(seg) == seg.type = "SSMLBreak"

(***************************************************************************)
(* segments_length_limit: the state of the loop is (i, total_len,          *)
(* ret_segments, broke);   LimitStep is one iteration of the for loop.     *)
(***************************************************************************)
\* ret_segments = []; total_len = 0
LimitStart(ssml, segments, total_max) ==
    [ssml |-> ssml, segments |-> segments, total_max |-> total_max,
     i |-> 1, total_len |-> 0, ret_segments |-> <<>>, broke |-> FALSE]

\* Variant: the budget test is off by one.
LimitExceeds_OffByOne(total_len, total_max) == total_len > total_max + 1

LimitExceeds(total_len, total_max) == total_len > total_max

\* Variant: an over-budget Text segment is skipped (continue) and the loop
\* goes on, instead of stopping the iteration (break).
LimitIterate_Continue(l) ==
    LET seg == l.segments[l.i] IN
    IF isinstance_SSMLBreak(seg)
    THEN [l EXCEPT !.ret_segments = Append(@, seg), !.i = @ + 1]
    ELSE IF l.total_len + seg.len > l.total_max
         THEN [l EXCEPT !.i = @ + 1, !.broke = TRUE]
         ELSE [l EXCEPT !.total_len = @ + seg.len,
                        !.ret_segments = Append(@, seg), !.i = @ + 1]

LimitIterate(l) ==
    LET seg == l.segments[l.i] IN
    IF isinstance_SSMLBreak(seg)
    THEN [l EXCEPT !.ret_segments = Append(@, seg), !.i = @ + 1]
    ELSE LET t == l.total_len + seg.len IN
         IF LimitExceeds(t, l.total_max)
         THEN [l EXCEPT !.total_len = t, !.i = Len(l.segments) + 1,
                        !.broke = TRUE]
         ELSE [l EXCEPT !.total_len = t, !.ret_segments = Append(@, seg),
                        !.i = @ + 1]

(***************************************************************************)
(* EnhancerConfig as built by each entry point; lambd is in tenths.        *)
(***************************************************************************)
EnhancerConfigSsml(enable_denoise, enable_enhance) ==
    [enabled |-> enable_denoise \/ enable_enhance \/ FALSE,
     lambd |-> IF enable_denoise THEN 9 ELSE 1]

\* Variant: the blend weight follows the wrong flag.
EnhancerConfigTts_WrongFlag(enable_denoise, enable_enhance) ==
    [enabled |-> enable_denoise \/ enable_enhance \/ FALSE,
     lambd |-> IF enable_enhance THEN 9 ELSE 1]

EnhancerConfigTts(enable_denoise, enable_enhance) ==
    [enabled |-> enable_denoise \/ enable_enhance \/ FALSE,
     lambd |-> IF enable_denoise THEN 9 ELSE 1]

EncoderConfigWebui == [format |-> "mp3", bitrate |-> "64k"]

(***************************************************************************)
(* synthesize_ssml                                                         *)
(***************************************************************************)
SsmlArgs ==
    [ssml : SsmlStrings, ssml_max : 0..MaxBudget,
     enable_enhance : BOOLEAN, enable_denoise : BOOLEAN]

Call_synthesize_ssml ==
    /\ pc = "idle"
    /\ \E a \in SsmlArgs :
        /\ args' = a
        /\ loc' = [ssml |-> a.ssml]
    /\ fn' = "synthesize_ssml"
    /\ pc' = "ssml_strip"
    /\ UNCHANGED <<handler, enqueued, result>>

\* ssml = ssml.strip(); raise when empty; parse
SsmlStripParse ==
    /\ pc = "ssml_strip"
    /\ LET s == StripSsml(loc.ssml) IN
        IF s = EmptySsml
        THEN /\ loc' = [ssml |-> s]
             /\ result' = Raise("SSML is empty, please input some SSML")
             /\ pc' = "error"
        ELSE /\ loc' = LimitStart(s, parse(s), args.ssml_max)
             /\ result' = result
             /\ pc' = "limit_loop"
    /\ UNCHANGED <<fn, args, handler, enqueued>>

LimitStep ==
    /\ pc = "limit_loop"
    /\ loc.i <= Len(loc.segments)
    /\ loc' = LimitIterate(loc)
    /\ UNCHANGED <<fn, pc, args, handler, enqueued, result>>

\* return ret_segments; segments = ...; raise when nothing is left
LimitReturn ==
    /\ pc = "limit_loop"
    /\ loc.i > Len(loc.segments)
    /\ loc' = [ssml |-> loc.ssml, segments |-> loc.ret_segments]
    /\ IF Len(loc.ret_segments) = 0
       THEN /\ result' = Raise("No valid segments in SSML")
            /\ pc' = "error"
       ELSE /\ result' = result
            /\ pc' = "ssml_build"
    /\ UNCHANGED <<fn, args, handler, enqueued>>

SsmlBuild ==
    /\ pc = "ssml_build"
    /\ handler' =
        [kind |-> "SSMLHandler",
         ssml_content |-> loc.ssml,
         tts_config |-> [mid |-> "chat-tts"],
         enhancer_config |->
             EnhancerConfigSsml(args.enable_denoise, args.enable_enhance),
         encoder_config |-> EncoderConfigWebui]
    /\ pc' = "ssml_enqueue"
    /\ UNCHANGED <<fn, args, loc, enqueued, result>>

SsmlEnqueue ==
    /\ pc = "ssml_enqueue"
    /\ enqueued' = Append(enqueued, handler)
    /\ result' = [kind |-> "return", value |-> "audio"]
    /\ pc' = "done"
    /\ UNCHANGED <<fn, args, loc, handler>>

(***************************************************************************)
(* Integers wider than the checker's machine integers (seeds around 2^32)  *)
(* are pairs <<hi, lo>> denoting hi * 2^16 + lo with 0 <= lo < 2^16.       *)
(***************************************************************************)
Limb == 2 ^ 16

BigNorm(hi, lo) == <<hi + (lo \div Limb), lo % Limb>>

Big(n) == BigNorm(0, n)

BigAdd(a, b) == BigNorm(a[1] + b[1], a[2] + b[2])

BigLess(a, b) == a[1] < b[1] \/ (a[1] = b[1] /\ a[2] < b[2])

BigLeq(a, b) == a = b \/ BigLess(a, b)

\* 2**32
TwoPow32 == <<Limb, 0>>

SeedLow == Big(-1)

SeedHigh == BigAdd(TwoPow32, Big(-1))

\* int(np.clip(x, lo, hi, dtype=np.float64)) = minimum(maximum(x, lo), hi)
np_clip(x, lo, hi) ==
    LET m == IF BigLess(x, lo) THEN lo ELSE x IN
    IF BigLess(hi, m) THEN hi ELSE m

(***************************************************************************)
(* Temperatures are counted in units of 1e-9.                              *)
(***************************************************************************)
min_n == 1

PointOne == 100000000

PointThree == 300000000

\* Python truthiness of the coalesced values
TruthySeed(x) == x # Big(0)

TruthyNum(x) == x # 0

TruthyStr(x) == x # ""

\* infer_seed = infer_seed or params.get("seed", infer_seed)
CoalesceSeed(infer_seed, params) ==
    IF TruthySeed(infer_seed) THEN infer_seed ELSE Get(params.seed, infer_seed)

\* temperature = temperature or params.get("temperature", temperature)
CoalesceTemperature(temperature, params) ==
    IF TruthyNum(temperature) THEN temperature
    ELSE Get(params.temperature, temperature)

\* prefix = prefix or params.get("prefix", "")  (and prompt1, prompt2 alike)
CoalesceStr(explicit, preset) ==
    IF TruthyStr(explicit) THEN explicit ELSE Get(preset, "")

\* Variant: the upper limit of the clamp is 2**32.
ClampSeed_UpperOff(infer_seed) == np_clip(infer_seed, SeedLow, TwoPow32)

\* infer_seed = int(np.clip(infer_seed, -1, 2**32 - 1, ...))
ClampSeed(infer_seed) == np_clip(infer_seed, SeedLow, SeedHigh)

\* Variant: the temperature 0.1 is replaced by 0.
FixTemperature_Zero(temperature) ==
    IF temperature = PointOne THEN 0 ELSE temperature

\* if temperature == 0.1: temperature = min_n
FixTemperature(temperature) ==
    IF temperature = PointOne THEN min_n ELSE temperature

(***************************************************************************)
(* Speakers.                                                               *)
(***************************************************************************)
IntSpk == [type |-> "int", origin |-> "caller", text |-> <<>>]

StrSpk == [type |-> "str", origin |-> "caller", text |-> <<>>]

TTSSpeaker(origin, text) ==
    [type |-> "TTSSpeaker", origin |-> origin, text |-> text]

SpkFiles == {[loads |-> TRUE], [loads |-> FALSE]}

\* TTSSpeaker.from_file(file) raises on a file that does not load
from_file_raises(file) == ~file.loads

(***************************************************************************)
(* tts_generate                                                            *)
(***************************************************************************)
SeedInputs ==
    {Big(-2), Big(-1), Big(0), Big(42), SeedHigh, TwoPow32}

StyleSeeds == {Big(-5), Big(7), BigAdd(TwoPow32, Big(1))}

\* Calls that vary what the caller and the style preset give for the
\* coalesced parameters.
ParamTtsArgs ==
    [text : {<<"a">>}, tts_max : {MaxTtsMax},
     temperature : {0, min_n, PointOne, PointThree},
     spk : {IntSpk}, infer_seed : SeedInputs,
     prompt1 : {"", "p1"}, prompt2 : {"", "p2"}, prefix : {"", "px"},
     style : {"chat"}, enable_enhance : {FALSE}, enable_denoise : {FALSE},
     spk_file : {None}, ref_audio : {None}, ref_audio_text : {None},
     params :
        [spk : {None},
         seed : {None} \cup {Some(s) : s \in StyleSeeds},
         temperature : {None, Some(PointOne), Some(2 * PointThree)},
         prefix : {None, Some("style_px")},
         prompt : {None, Some("style_p")},
         prompt1 : {None, Some("style_p1")},
         prompt2 : {None, Some("style_p2")}]]

RefTexts == {<<>>, <<" ">>, <<"a">>, <<" ", "a", " ">>}

\* Calls that vary the text, the speaker sources and the enhancer flags.
InputTtsArgs ==
    [text : Strings(MaxChars), tts_max : 0..MaxTtsMax,
     temperature : {PointThree},
     spk : {IntSpk, StrSpk}, infer_seed : {Big(-1)},
     prompt1 : {""}, prompt2 : {""}, prefix : {""},
     style : {"", "*auto"}, enable_enhance : BOOLEAN,
     enable_denoise : BOOLEAN,
     spk_file : {None} \cup {Some(f) : f \in SpkFiles},
     ref_audio : {None, Some("wav")},
     ref_audio_text : {None} \cup {Some(t) : t \in RefTexts},
     params :
        [spk : {None, Some(TTSSpeaker("style", <<>>))},
         seed : {None}, temperature : {None}, prefix : {None},
         prompt : {None}, prompt1 : {None}, prompt2 : {None}]]

TtsArgs == ParamTtsArgs \cup InputTtsArgs

Call_tts_generate ==
    /\ pc = "idle"
    /\ \E a \in TtsArgs :
        /\ args' = a
        /\ loc' = [text |-> a.text, style |-> a.style, spk |-> a.spk,
                   infer_seed |-> a.infer_seed,
                   temperature |-> a.temperature, prefix |-> a.prefix,
                   prompt |-> "", prompt1 |-> a.prompt1,
                   prompt2 |-> a.prompt2]
    /\ fn' = "tts_generate"
    /\ pc' = "tts_text"
    /\ UNCHANGED <<handler, enqueued, result>>

\* text = text.strip()[0:max_len]; raise when empty
TtsText ==
    /\ pc = "tts_text"
    /\ LET text == Slice0(Strip(loc.text), args.tts_max) IN
        /\ loc' = [loc EXCEPT !.text = text]
        /\ IF text = <<>>
           THEN /\ result' = Raise("Text is empty, please input some text")
                /\ pc' = "error"
           ELSE /\ result' = result
                /\ pc' = "tts_style"
    /\ UNCHANGED <<fn, args, handler, enqueued>>

\* style "*auto" -> ""; params = calc_spk_style(...); spk = params.get("spk", spk)
TtsStyle ==
    /\ pc = "tts_style"
    /\ loc' = [loc EXCEPT
                 !.style = IF loc.style = "*auto" THEN "" ELSE loc.style,
                 !.spk = Get(args.params.spk, loc.spk)]
    /\ pc' = "tts_coalesce"
    /\ UNCHANGED <<fn, args, handler, enqueued, result>>

TtsCoalesce ==
    /\ pc = "tts_coalesce"
    /\ loc' = [loc EXCEPT
                 !.infer_seed = CoalesceSeed(loc.infer_seed, args.params),
                 !.temperature =
                     CoalesceTemperature(loc.temperature, args.params),
                 !.prefix = CoalesceStr(loc.prefix, args.params.prefix),
                 !.prompt = Get(args.params.prompt, ""),
                 !.prompt1 = CoalesceStr(loc.prompt1, args.params.prompt1),
                 !.prompt2 = CoalesceStr(loc.prompt2, args.params.prompt2)]
    /\ pc' = "tts_clamp"
    /\ UNCHANGED <<fn, args, handler, enqueued, result>>

TtsClamp ==
    /\ pc = "tts_clamp"
    /\ loc' = [loc EXCEPT
                 !.infer_seed = ClampSeed(loc.infer_seed),
                 !.temperature = FixTemperature(loc.temperature)]
    /\ pc' = "tts_spk"
    /\ UNCHANGED <<fn, args, handler, enqueued, result>>

\* isinstance(spk, int) -> create_speaker_from_seed; spk_file -> from_file
TtsSpk ==
    /\ pc = "tts_spk"
    /\ LET spk1 == IF loc.spk.type = "int"
                   THEN TTSSpeaker("seed", <<>>) ELSE loc.spk
       IN
        IF args.spk_file # None /\ from_file_raises(TheValue(args.spk_file))
        THEN /\ loc' = [loc EXCEPT !.spk = spk1]
             /\ result' = Raise("Failed to load speaker file")
             /\ pc' = "error"
        ELSE /\ loc' = [loc EXCEPT !.spk = IF args.spk_file # None
                                            THEN TTSSpeaker("file", <<>>)
                                            ELSE spk1]
             /\ result' = result
             /\ pc' = "tts_ref"
    /\ UNCHANGED <<fn, args, handler, enqueued>>

\* Variant: the transcript is compared without being stripped.
ref_audio_text_empty_NoStrip(ref_audio_text) ==
    \/ ref_audio_text = None
    \/ TheValue(ref_audio_text) = <<>>

\* ref_audio_text is None or ref_audio_text.strip() == ""
ref_audio_text_empty(ref_audio_text) ==
    \/ ref_audio_text = None
    \/ Strip(TheValue(ref_audio_text)) = <<>>

\* ref_audio: the transcript must not be None or blank
TtsRefAudio ==
    /\ pc = "tts_ref"
    /\ IF args.ref_audio # None
       THEN IF ref_audio_text_empty(args.ref_audio_text)
            THEN /\ loc' = loc
                 /\ result' = Raise("ref_audio_text is empty")
                 /\ pc' = "error"
            ELSE /\ loc' = [loc EXCEPT !.spk =
                              TTSSpeaker("ref_wav",
                                         TheValue(args.ref_audio_text))]
                 /\ result' = result
                 /\ pc' = "tts_build"
       ELSE /\ loc' = loc
            /\ result' = result
            /\ pc' = "tts_build"
    /\ UNCHANGED <<fn, args, handler, enqueued>>

TtsBuild ==
    /\ pc = "tts_build"
    /\ handler' =
        [kind |-> "TTSHandler",
         text_content |-> loc.text,
         spk |-> loc.spk,
         tts_config |->
            [mid |-> "chat-tts", style |-> loc.style,
             temperature |-> loc.temperature, prompt |-> loc.prompt,
             prefix |-> loc.prefix, prompt1 |-> loc.prompt1,
             prompt2 |-> loc.prompt2],
         infer_config |-> [seed |-> loc.infer_seed, sync_gen |-> TRUE],
         enhancer_config |->
             EnhancerConfigTts(args.enable_denoise, args.enable_enhance),
         encoder_config |-> EncoderConfigWebui]
    /\ pc' = "tts_enqueue"
    /\ UNCHANGED <<fn, args, loc, enqueued, result>>

TtsEnqueue ==
    /\ pc = "tts_enqueue"
    /\ enqueued' = Append(enqueued, handler)
    /\ result' = [kind |-> "return", value |-> "audio"]
    /\ pc' = "done"
    /\ UNCHANGED <<fn, args, loc, handler>>

(***************************************************************************)
(* load_spk_info                                                           *)
(***************************************************************************)
Return(v) == [kind |-> "return", value |-> v]

\* Variant: the load is not guarded by try/except.
load_spk_info_Unguarded(file) ==
    IF file = None THEN Return("empty")
    ELSE IF from_file_raises(TheValue(file)) THEN Raise("from_file failed")
    ELSE Return("- name: .. - gender: .. - describe: ..")

load_spk_info(file) ==
    IF file = None THEN Return("empty")
    ELSE IF from_file_raises(TheValue(file)) THEN Return("load failed")
    ELSE Return("- name: .. - gender: .. - describe: ..")

Call_load_spk_info ==
    /\ pc = "idle"
    /\ \E file \in {None} \cup {Some(f) : f \in SpkFiles} :
        /\ args' = [file |-> file]
        /\ result' = load_spk_info(file)
    /\ fn' = "load_spk_info"
    /\ pc' = "done"
    /\ UNCHANGED <<loc, handler, enqueued>>

(***************************************************************************)
(* The stream encoders.  An argument left out of the call takes the        *)
(* default of the signature; StreamOpen is what super().open receives.     *)
(***************************************************************************)
Omitted == "<omitted>"

NoneStr == "<None>"

StreamOpen(format, acodec, bitrate) ==
    [format |-> format, acodec |-> acodec, bitrate |-> bitrate]

Default(arg, default) == IF arg = Omitted THEN default ELSE arg

\* x or y, on a codec name
OrStr(x, y) == IF x = NoneStr \/ x = "" THEN y ELSE x

Mp3Encoder_open(acodec, bitrate) ==
    StreamOpen("mp3", OrStr(Default(acodec, "libmp3lame"), "libmp3lame"),
               Default(bitrate, "128k"))

WavEncoder_open(acodec, bitrate) ==
    StreamOpen("wav", OrStr(Default(acodec, "pcm_s16le"), "pcm_s16le"),
               Default(bitrate, "128k"))

OggEncoder_open(acodec, bitrate) ==
    StreamOpen("ogg", OrStr(Default(acodec, "libvorbis"), "libvorbis"),
               Default(bitrate, "128k"))

FlacEncoder_open(acodec, bitrate) ==
    StreamOpen("flac", OrStr(Default(acodec, "flac"), "flac"),
               Default(bitrate, "128k"))

AacEncoder_open(acodec, bitrate) ==
    StreamOpen("aac", OrStr(Default(acodec, "aac"), "acc"),
               Default(bitrate, "128k"))

Encoders == {"Mp3Encoder", "WavEncoder", "OggEncoder", "FlacEncoder",
             "AacEncoder"}

Encoder_open(cls, acodec, bitrate) ==
    CASE cls = "Mp3Encoder" -> Mp3Encoder_open(acodec, bitrate)
      [] cls = "WavEncoder" -> WavEncoder_open(acodec, bitrate)
      [] cls = "OggEncoder" -> OggEncoder_open(acodec, bitrate)
      [] cls = "FlacEncoder" -> FlacEncoder_open(acodec, bitrate)
      [] cls = "AacEncoder" -> AacEncoder_open(acodec, bitrate)

Call_open ==
    /\ pc = "idle"
    /\ \E cls \in Encoders, acodec \in {Omitted, NoneStr, "", "libopus"},
          bitrate \in {Omitted, "64k"} :
        /\ args' = [cls |-> cls, acodec |-> acodec, bitrate |-> bitrate]
        /\ result' = Return(Encoder_open(cls, acodec, bitrate))
    /\ fn' = "open"
    /\ pc' = "done"
    /\ UNCHANGED <<loc, handler, enqueued>>

Init ==
    /\ fn = "none"
    /\ pc = "idle"
    /\ args = NoArgs
    /\ loc = NoArgs
    /\ handler = NoHandler
    /\ enqueued = <<>>
    /\ result = NoResult

Next ==
    \/ Call_synthesize_ssml
    \/ SsmlStripParse
    \/ LimitStep
    \/ LimitReturn
    \/ SsmlBuild
    \/ SsmlEnqueue
    \/ Call_tts_generate
    \/ TtsText
    \/ TtsStyle
    \/ TtsCoalesce
    \/ TtsClamp
    \/ TtsSpk
    \/ TtsRefAudio
    \/ TtsBuild
    \/ TtsEnqueue
    \/ Call_load_spk_info
    \/ Call_open

Spec == Init /\ [][Next]_vars

(***************************************************************************)
(* Properties.                                                             *)
(***************************************************************************)
RECURSIVE TextLen(_)
TextLen(segs) ==
    IF segs = <<>> THEN 0
    ELSE (IF Head(segs).type = "SSMLSegment" THEN Head(segs).len ELSE 0)
         + TextLen(Tail(segs))

\* Index of the first Text segment that takes the cumulative Text length of
\* the input over the budget; Len + 1 when there is none.
FirstOver(segs, max) ==
    LET over == {k \in 1..Len(segs) :
                    /\ segs[k].type = "SSMLSegment"
                    /\ TextLen(SubSeq(segs, 1, k)) > max}
    IN IF over = {} THEN Len(segs) + 1
       ELSE CHOOSE k \in over : \A j \in over : k <= j

InLimit == fn = "synthesize_ssml" /\ pc = "limit_loop"

AfterLimit ==
    fn = "synthesize_ssml" /\ pc \in {"ssml_build", "ssml_enqueue", "done"}

C2_ReturnsPrefix ==
    /\ InLimit /\ loc.i > Len(loc.segments) =>
          loc.ret_segments =
              SubSeq(loc.segments, 1,
                     FirstOver(loc.segments, loc.total_max) - 1)
    /\ AfterLimit =>
          loc.segments =
              SubSeq(parse(loc.ssml), 1,
                     FirstOver(parse(loc.ssml), args.ssml_max) - 1)

\* C2 witness: a request has completed whose input went on, after the
\* over-budget Text segment, with a Break and with a Text segment small
\* enough to fit, and both were dropped.
C2_Witness ==
    /\ fn = "synthesize_ssml" /\ pc = "done"
    /\ LET input == parse(loc.ssml)
           kept == Len(loc.segments)
       IN /\ kept + 3 <= Len(input)
          /\ \E j \in (kept + 2)..Len(input) : input[j].type = "SSMLBreak"
          /\ \E j \in (kept + 2)..Len(input) :
                /\ input[j].type = "SSMLSegment"
                /\ TextLen(loc.segments) + input[j].len <= args.ssml_max

DefaultCodec(cls) ==
    CASE cls = "Mp3Encoder" -> "libmp3lame"
      [] cls = "WavEncoder" -> "pcm_s16le"
      [] cls = "OggEncoder" -> "libvorbis"
      [] cls = "FlacEncoder" -> "flac"
      [] cls = "AacEncoder" -> "aac"

\* C3: an encoder opened with the codec unset (omitted, None or "") opens the
\* stream with the codec of the fixed table, and with the bitrate omitted the
\* bitrate passed on is 128k.
C3_DefaultCodecs ==
    fn = "open" /\ pc = "done" =>
        /\ args.acodec \in {Omitted, NoneStr, ""} =>
              result.value.acodec = DefaultCodec(args.cls)
        /\ args.bitrate = Omitted => result.value.bitrate = "128k"

AfterCoalesce ==
    fn = "tts_generate"
    /\ pc \in {"tts_clamp"}

\* C4: after coalescing, each of infer_seed, temperature, prefix, prompt1 and
\* prompt2 is the caller's value when that value is non-zero, non-empty and
\* not -1, and otherwise the value the style preset defines.
C4_CoalesceTruthyNotSentinel ==
    AfterCoalesce =>
        /\ IF args.infer_seed # Big(0) /\ args.infer_seed # Big(-1)
           THEN loc.infer_seed = args.infer_seed
           ELSE args.params.seed # None =>
                    loc.infer_seed = TheValue(args.params.seed)
        /\ IF args.temperature # 0
           THEN loc.temperature = args.temperature
           ELSE args.params.temperature # None =>
                    loc.temperature = TheValue(args.params.temperature)
        /\ IF args.prefix # "" THEN loc.prefix = args.prefix
           ELSE args.params.prefix # None =>
                    loc.prefix = TheValue(args.params.prefix)
        /\ IF args.prompt1 # "" THEN loc.prompt1 = args.prompt1
           ELSE args.params.prompt1 # None =>
                    loc.prompt1 = TheValue(args.params.prompt1)
        /\ IF args.prompt2 # "" THEN loc.prompt2 = args.prompt2
           ELSE args.params.prompt2 # None =>
                    loc.prompt2 = TheValue(args.params.prompt2)

AfterClamp ==
    fn = "tts_generate"
    /\ pc \in {"tts_spk", "tts_ref", "tts_build", "tts_enqueue", "done"}

TtsBuilt == fn = "tts_generate" /\ pc \in {"tts_enqueue", "done"}

IsBig(x) == x[1] \in Int /\ x[2] \in 0..(Limb - 1)

\* C5: the seed after the clamp, and the seed placed in InferConfig, is an
\* integer in [-1, 2^32 - 1]: the seed reaching the clamp when that is in
\* range, -1 when it is below and 2^32 - 1 when it is above.
C5_SeedClamped ==
    LET x == CoalesceSeed(args.infer_seed, args.params)
        expected == IF BigLess(x, Big(-1)) THEN Big(-1)
                    ELSE IF BigLess(SeedHigh, x) THEN SeedHigh
                    ELSE x
    IN /\ AfterClamp =>
            /\ IsBig(loc.infer_seed)
            /\ BigLeq(Big(-1), loc.infer_seed)
            /\ BigLeq(loc.infer_seed, SeedHigh)
            /\ loc.infer_seed = expected
       /\ TtsBuilt => handler.infer_config.seed = expected

\* C5 witness: a request has completed whose seed came in above 2^32 - 1 and
\* went out as 2^32 - 1.
C5_Witness ==
    /\ fn = "tts_generate" /\ pc = "done"
    /\ args.infer_seed = TwoPow32
    /\ handler.infer_config.seed = SeedHigh

\* C6: the temperature placed in TTSConfig is 1e-9 when the temperature after
\* coalescing is exactly 0.1 and is that temperature otherwise, whether it
\* came from the caller or from the style preset.
C6_TemperatureWorkaround ==
    TtsBuilt =>
        LET t == IF args.temperature # 0 THEN args.temperature
                 ELSE Get(args.params.temperature, args.temperature)
        IN handler.tts_config.temperature = (IF t = PointOne THEN min_n ELSE t)

\* C6 witness: a request has completed whose temperature 0.1 came from the
\* style preset and was replaced by 1e-9.
C6_Witness ==
    /\ fn = "tts_generate" /\ pc = "done"
    /\ args.temperature = 0
    /\ args.params.temperature = Some(PointOne)
    /\ handler.tts_config.temperature = min_n

HandlerBuilt ==
    \/ TtsBuilt
    \/ fn = "synthesize_ssml" /\ pc \in {"ssml_enqueue", "done"}

\* C7: in both entry points denoise gives an enabled enhancer with blend
\* weight 0.9 (also with enhance set), enhance alone gives an enabled enhancer
\* with blend weight 0.1, and neither gives a disabled enhancer.
C7_EnhancerPresets ==
    HandlerBuilt =>
        LET cfg == handler.enhancer_config IN
        /\ args.enable_denoise => cfg.enabled /\ cfg.lambd = 9
        /\ args.enable_enhance /\ ~args.enable_denoise =>
              cfg.enabled /\ cfg.lambd = 1
        /\ ~args.enable_enhance /\ ~args.enable_denoise => ~cfg.enabled

\* C7 witness: tts_generate has completed with both flags set and the
\* denoise weight.
C7_Witness ==
    /\ fn = "tts_generate" /\ pc = "done"
    /\ args.enable_denoise /\ args.enable_enhance
    /\ enqueued[1].enhancer_config = [enabled |-> TRUE, lambd |-> 9]

InvalidSsml(a) ==
    \/ a.ssml.doc = None
    \/ LET input == TheValue(a.ssml.doc)
       IN SubSeq(input, 1, FirstOver(input, a.ssml_max) - 1) = <<>>

BlankTranscript(t) == t = None \/ \A k \in 1..Len(TheValue(t)) : TheValue(t)[k] = " "

InvalidTts(a) ==
    \/ Slice0(Strip(a.text), a.tts_max) = <<>>
    \/ a.spk_file # None /\ ~TheValue(a.spk_file).loads
    \/ a.ref_audio # None /\ BlankTranscript(a.ref_audio_text)

Invalid ==
    \/ fn = "synthesize_ssml" /\ InvalidSsml(args)
    \/ fn = "tts_generate" /\ InvalidTts(args)

\* C8: a request whose input fails validation never constructs or enqueues a
\* handler and never returns audio; a request that ended with an error has
\* enqueued nothing; and a request whose input is valid (a reference audio
\* with a non-blank transcript included) does not end with an error.
C8_FailFast ==
    /\ Invalid =>
          /\ enqueued = <<>>
          /\ handler = NoHandler
          /\ result.kind # "return"
    /\ pc = "error" => result.kind = "raise" /\ enqueued = <<>>
    /\ fn \in {"synthesize_ssml", "tts_generate"} /\ ~Invalid => pc # "error"

\* C8 witness: tts_generate has ended with an error on a reference audio
\* whose transcript is only whitespace, with nothing enqueued.
C8_Witness ==
    /\ fn = "tts_generate" /\ pc = "error"
    /\ args.ref_audio # None
    /\ args.ref_audio_text = Some(<<" ">>)
    /\ result = Raise("ref_audio_text is empty")
    /\ enqueued = <<>>

SpkFileFails(a) == a.spk_file # None /\ ~TheValue(a.spk_file).loads

\* C9: load_spk_info never raises: it returns "empty" without a file and
\* "load failed" for a file that does not load; tts_generate with a speaker
\* file that does not load never gets past the load, enqueues nothing and
\* ends with an error.
C9_LoadFailurePaths ==
    /\ fn = "load_spk_info" =>
          /\ result.kind = "return"
          /\ args.file = None => result.value = "empty"
          /\ args.file # None /\ ~TheValue(args.file).loads =>
                result.value = "load failed"
    /\ fn = "tts_generate" /\ SpkFileFails(args) =>
          /\ pc \notin {"tts_ref", "tts_build", "tts_enqueue", "done"}
          /\ enqueued = <<>>
          /\ pc = "error" /\ Slice0(Strip(args.text), args.tts_max) # <<>> =>
                result = Raise("Failed to load speaker file")

\* C9 witness: load_spk_info has returned the placeholder for a file that
\* does not load.
C9_Witness ==
    /\ fn = "load_spk_info" /\ pc = "done"
    /\ args.file = Some([loads |-> FALSE])
    /\ result = Return("load failed")

\* C10: the content handed to the synthesis handler by synthesize_ssml is the
\* segment sequence returned by segments_length_limit, so the Text submitted
\* for synthesis stays within ssml_max.
C10_SubmittedWithinBudget ==
    fn = "synthesize_ssml" /\ pc = "done" =>
        /\ parse(enqueued[1].ssml_content) = loc.segments
        /\ TextLen(parse(enqueued[1].ssml_content)) <= args.ssml_max
====
